---- MODULE Spec2Model ----
(***************************************************************************)
(* Model of src/src/rtstest/dothetune.py: the ConvNet shape arithmetic,    *)
(* the train/test loops, the checkpoint adapter of Trainable, and main().  *)
(* Four groups of variables, one per part; each specification drives one   *)
(* part and leaves the variables of the other parts at their initial value.*)
(***************************************************************************)
EXTENDS Integers, Sequences, FiniteSets, TLC

VARIABLES
    \* ConvNet.forward
    netPc, netShape, netBatch, netChannels, netErr,
    \* train() / test() / Trainable.step
    tPc, train_loader, data_loader, test_size, batch_size, batch_idx,
    correct, total, updates, result,
    \* Trainable: setup, step, save_checkpoint, load_checkpoint
    model, optimizer, loaders, fs, ckRet, ckOp, ckSavedOpt,
    \* main() and the trials its tuner runs
    do_tune, gpu, restore, environ, pc, stages, failed, rayInit, restored,
    tuner, tunersBuilt, fitCalls, launched, finished, trial

netVars == <<netPc, netShape, netBatch, netChannels, netErr>>
testVars == <<tPc, train_loader, data_loader, test_size, batch_size, batch_idx,
              correct, total, updates, result>>

ckptVars == <<model, optimizer, loaders, fs, ckRet, ckOp, ckSavedOpt>>

mainVars == <<do_tune, gpu, restore, environ, pc, stages, failed, rayInit,
              restored, tuner, tunersBuilt, fitCalls, launched, finished, trial>>
vars == <<netVars, testVars, ckptVars, mainVars>>

----------------------------------------------------------------------------
(* Bounds *)
MaxN == 8            \* largest batch fed to ConvNet.forward
MaxData == 6         \* largest test dataset
MaxTrainData == 2    \* largest train dataset
MaxBatch == 3        \* largest DataLoader batch_size
MaxTestSize == 4     \* largest test_size
MaxW == 2            \* abstract parameter values are 0..MaxW
MaxBuf == 2          \* abstract momentum-buffer values are 0..MaxBuf
MaxIter == 7         \* cap on the iterations of a trial that nothing stops

(* Program constants *)
ImageSize == 28      \* MNIST images are 28x28, one channel
KernelSize == 3      \* nn.Conv2d(..., kernel_size=3)
PoolSize == 3        \* F.max_pool2d(..., 3)
FcPerChannel == 64   \* nn.Linear(64 * conf_out_channels, 10)
NumClasses == 10     \* nn.Linear(..., 10)
DefaultChannels == 3 \* config.get("conf_out_channels", 3)
LoaderBatch == 64    \* DataLoader(..., batch_size=64)
StopIteration == 5   \* stop={"training_iteration": 5}
NumSamples == 30     \* num_samples=30
DefaultNumSamples == 1 \* TuneConfig() default when no tune_config is passed

ChannelChoices == {3, 6, 9}

----------------------------------------------------------------------------
(* ConvNet *)

\* nn.Conv2d with stride 1, no padding: output side length.
Conv2dOut(h, k) == h - k + 1

MaxPool2dOutCeil(h, k) == ((h - k + k - 1) \div k) + 1
\* F.max_pool2d(x, k): stride defaults to the kernel size, floor mode.
MaxPool2dOut(h, k) == ((h - k) \div k) + 1

RECURSIVE Numel(_)
Numel(shape) == IF shape = <<>> THEN 1 ELSE Head(shape) * Numel(Tail(shape))

\* x.view(-1, cols): the number of rows is inferred; fails when numel is not
\* a multiple of cols.
ViewRows(shape, cols) == Numel(shape) \div cols
ViewOk(shape, cols) == Numel(shape) % cols = 0

NetInit ==
    /\ netBatch \in 1..MaxN
    /\ netChannels \in ChannelChoices
    /\ netShape = <<netBatch, 1, ImageSize, ImageSize>>
    /\ netPc = "input"
    /\ netErr = "none"

\* self.conv1(x)
NetConv ==
    /\ netPc = "input"
    /\ netShape' = <<netShape[1], netChannels,
                     Conv2dOut(netShape[3], KernelSize),
                     Conv2dOut(netShape[4], KernelSize)>>
    /\ netPc' = "conv"
    /\ UNCHANGED <<netBatch, netChannels, netErr>>

\* F.relu(F.max_pool2d(..., 3)); relu keeps the shape
NetPool ==
    /\ netPc = "conv"
    /\ netShape' = <<netShape[1], netShape[2],
                     MaxPool2dOut(netShape[3], PoolSize),
                     MaxPool2dOut(netShape[4], PoolSize)>>
    /\ netPc' = "pooled"
    /\ UNCHANGED <<netBatch, netChannels, netErr>>

\* x.view(-1, 64 * self.conf_out_channels)
NetView ==
    /\ netPc = "pooled"
    /\ LET cols == FcPerChannel * netChannels IN
       IF ViewOk(netShape, cols)
       THEN /\ netShape' = <<ViewRows(netShape, cols), cols>>
            /\ netPc' = "viewed"
            /\ UNCHANGED netErr
       ELSE /\ netErr' = "RuntimeError"
            /\ netPc' = "raised"
            /\ UNCHANGED netShape
    /\ UNCHANGED <<netBatch, netChannels>>

\* self.fc(x): in_features must match the last dimension
NetFc ==
    /\ netPc = "viewed"
    /\ IF netShape[2] = FcPerChannel * netChannels
       THEN /\ netShape' = <<netShape[1], NumClasses>>
            /\ netPc' = "fc"
            /\ UNCHANGED netErr
       ELSE /\ netErr' = "RuntimeError"
            /\ netPc' = "raised"
            /\ UNCHANGED netShape
    /\ UNCHANGED <<netBatch, netChannels>>

\* F.log_softmax(x, dim=1) keeps the shape
NetLogSoftmax ==
    /\ netPc = "fc"
    /\ netPc' = "output"
    /\ UNCHANGED <<netShape, netBatch, netChannels, netErr>>

----------------------------------------------------------------------------
(* DataLoader, train(), test(), Trainable.step *)

\* DataLoader(dataset, batch_size=b) over n samples, drop_last=False: the
\* lengths of the batches it yields, all b except a shorter last one.
RECURSIVE Batches(_, _)
Batches(n, b) ==
    IF n = 0 THEN <<>>
    ELSE IF n <= b THEN <<n>>
    ELSE <<b>> \o Batches(n - b, b)

NoResult == [raised |-> "none", num |-> 0, den |-> 0]

TestInit ==
    /\ batch_size \in 1..MaxBatch
    /\ \E n \in 0..MaxData : data_loader = Batches(n, batch_size)
    /\ \E n \in 0..MaxTrainData : train_loader = Batches(n, batch_size)
    /\ test_size \in -1..MaxTestSize
    /\ tPc = "train"
    /\ batch_idx = 0
    /\ correct = 0
    /\ total = 0
    /\ updates = 0
    /\ result = NoResult

\* train(): one batch: zero_grad, forward, nll_loss, backward, optimizer.step
TrainBatch ==
    /\ tPc = "train"
    /\ batch_idx < Len(train_loader)
    /\ batch_idx' = batch_idx + 1
    /\ updates' = updates + 1
    /\ UNCHANGED <<tPc, train_loader, data_loader, test_size, batch_size,
                   correct, total, result>>

\* train() returns; test() starts with correct = 0, total = 0
TrainDone ==
    /\ tPc = "train"
    /\ batch_idx = Len(train_loader)
    /\ tPc' = "test"
    /\ batch_idx' = 0
    /\ correct' = 0
    /\ total' = 0
    /\ UNCHANGED <<train_loader, data_loader, test_size, batch_size, updates,
                   result>>

BreakTestGe(idx, len, size) == idx * len >= size
BreakTestIdx(idx, len, size) == idx > size
\* if batch_idx * len(data) > test_size: break
BreakTest(idx, len, size) == idx * len > size

\* test(): one batch that passes the break test is counted; k of its
\* predictions equal the target.
TestCount ==
    /\ tPc = "test"
    /\ batch_idx < Len(data_loader)
    /\ LET len == data_loader[batch_idx + 1] IN
       /\ ~BreakTest(batch_idx, len, test_size)
       /\ total' = total + len
       /\ \E k \in 0..len : correct' = correct + k
    /\ batch_idx' = batch_idx + 1
    /\ UNCHANGED <<tPc, train_loader, data_loader, test_size, batch_size,
                   updates, result>>

\* test(): the break
TestBreak ==
    /\ tPc = "test"
    /\ batch_idx < Len(data_loader)
    /\ BreakTest(batch_idx, data_loader[batch_idx + 1], test_size)
    /\ tPc' = "return"
    /\ UNCHANGED <<train_loader, data_loader, test_size, batch_size, batch_idx,
                   correct, total, updates, result>>

\* test(): the loader is exhausted
TestExhausted ==
    /\ tPc = "test"
    /\ batch_idx = Len(data_loader)
    /\ tPc' = "return"
    /\ UNCHANGED <<train_loader, data_loader, test_size, batch_size, batch_idx,
                   correct, total, updates, result>>

\* return correct / total, and step's dict(mean_accuracy=acc); the quotient
\* is kept as the pair numerator, denominator.
TestReturn ==
    /\ tPc = "return"
    /\ IF total = 0
       THEN /\ result' = [raised |-> "ZeroDivisionError", num |-> 0, den |-> 0]
            /\ tPc' = "raised"
       ELSE /\ result' = [raised |-> "none", num |-> correct, den |-> total]
            /\ tPc' = "done"
    /\ UNCHANGED <<train_loader, data_loader, test_size, batch_size, batch_idx,
                   correct, total, updates>>

TestNext ==
    \/ TrainBatch
    \/ TrainDone
    \/ TestCount
    \/ TestBreak
    \/ TestExhausted
    \/ TestReturn

----------------------------------------------------------------------------
(* Trainable: setup, step, save_checkpoint, load_checkpoint *)

\* Hyperparameters are kept as integers: lr as its power of ten (1e-10 is
\* -10), momentum in tenths (0.5 is 5).
train_config == [lr |-> -10, momentum |-> 5, conf_out_channels |-> 9]

\* Configurations handed to Trainable.setup: the fixed one and one without
\* the conf_out_channels key.
SetupConfigs ==
    { train_config,
      [lr |-> -5, momentum |-> 1] }

\* config.get("conf_out_channels", 3)
ConfChannels(config) ==
    IF "conf_out_channels" \in DOMAIN config
    THEN config.conf_out_channels
    ELSE DefaultChannels

CheckpointDirs == { <<"ckpt_a">>, <<"ckpt_b">> }
CheckpointName == "checkpoint.pth"

\* Path(checkpoint_dir) / "checkpoint.pth"
PathJoin(dir, name) == Append(dir, name)

AllPaths == CheckpointDirs \cup { PathJoin(d, CheckpointName) : d \in CheckpointDirs }

NoPath == <<>>
Absent == [kind |-> "absent", blob |-> <<>>]
Directory == [kind |-> "dir", blob |-> <<>>]

\* model.state_dict(): the four tensors of ConvNet with their shapes; the
\* parameter values are abstracted to one number w.
StateDict(m) ==
    LET c == m.conf_out_channels IN
    << [key |-> "conv1.weight", shape |-> <<c, 1, KernelSize, KernelSize>>, val |-> m.w],
       [key |-> "conv1.bias",   shape |-> <<c>>,                           val |-> m.w],
       [key |-> "fc.weight",    shape |-> <<NumClasses, FcPerChannel * c>>, val |-> m.w],
       [key |-> "fc.bias",      shape |-> <<NumClasses>>,                  val |-> m.w] >>

\* torch.save: the state dict flattened to one blob, per tensor
\* key, rank, dimensions, value.
RECURSIVE Serialize(_)
Serialize(sd) ==
    IF sd = <<>> THEN <<>>
    ELSE LET e == Head(sd) IN
         <<e.key, Len(e.shape)>> \o e.shape \o <<e.val>> \o Serialize(Tail(sd))

\* torch.load on a file: the blob parsed back into a state dict.
RECURSIVE Deserialize(_)
Deserialize(blob) ==
    IF blob = <<>> THEN <<>>
    ELSE LET rank == blob[2] IN
         << [key |-> blob[1],
             shape |-> SubSeq(blob, 3, 2 + rank),
             val |-> blob[3 + rank]] >>
         \o Deserialize(SubSeq(blob, 4 + rank, Len(blob)))

\* load_state_dict (strict): same keys and same shapes as the model's own.
Compatible(m, sd) ==
    /\ Len(sd) = Len(StateDict(m))
    /\ \A i \in 1..Len(sd) :
          /\ sd[i].key = StateDict(m)[i].key
          /\ sd[i].shape = StateDict(m)[i].shape

CkptInit ==
    /\ \E config \in SetupConfigs, w \in 0..MaxW :
          /\ model = [conf_out_channels |-> ConfChannels(config), w |-> w]
          /\ optimizer = [lr |-> config.lr, momentum |-> config.momentum, buf |-> 0]
    /\ loaders = [train |-> "MNIST/train", test |-> "MNIST/test",
                  batch_size |-> LoaderBatch]
    /\ fs = [p \in AllPaths |-> IF p \in CheckpointDirs THEN Directory ELSE Absent]
    /\ ckRet = NoPath
    /\ ckOp = [op |-> "setup", arg |-> NoPath, err |-> "none"]
    /\ ckSavedOpt = [lr |-> 0, momentum |-> 0, buf |-> 0]

\* Trainable.setup(config): a fresh model and a fresh SGD optimizer
Setup(config) ==
    /\ \E w \in 0..MaxW :
          model' = [conf_out_channels |-> ConfChannels(config), w |-> w]
    /\ optimizer' = [lr |-> config.lr, momentum |-> config.momentum, buf |-> 0]
    /\ loaders' = [train |-> "MNIST/train", test |-> "MNIST/test",
                   batch_size |-> LoaderBatch]
    /\ ckOp' = [op |-> "setup", arg |-> NoPath, err |-> "none"]
    /\ UNCHANGED <<fs, ckRet, ckSavedOpt>>

\* Trainable.step: train() updates the parameters and the momentum buffers
TrainableStep ==
    /\ optimizer.buf < MaxBuf
    /\ model' = [model EXCEPT !.w = (model.w + 1) % (MaxW + 1)]
    /\ optimizer' = [optimizer EXCEPT !.buf = optimizer.buf + 1]
    /\ ckOp' = [op |-> "step", arg |-> NoPath, err |-> "none"]
    /\ UNCHANGED <<loaders, fs, ckRet, ckSavedOpt>>

\* The value save_checkpoint returns
SaveReturn(checkpoint_dir) == checkpoint_dir

\* Trainable.save_checkpoint(checkpoint_dir)
save_checkpoint(checkpoint_dir) ==
    /\ fs[checkpoint_dir].kind = "dir"
    /\ LET path == PathJoin(checkpoint_dir, CheckpointName) IN
       fs' = [fs EXCEPT ![path] = [kind |-> "file", blob |-> Serialize(StateDict(model))]]
    /\ ckRet' = SaveReturn(checkpoint_dir)
    /\ ckSavedOpt' = optimizer
    /\ ckOp' = [op |-> "save_checkpoint", arg |-> checkpoint_dir, err |-> "none"]
    /\ UNCHANGED <<model, optimizer, loaders>>

load_checkpoint_resets_optimizer(checkpoint_path) ==
    /\ ckOp' = [op |-> "load_checkpoint", arg |-> checkpoint_path, err |-> "none"]
    /\ fs[checkpoint_path].kind = "file"
    /\ Compatible(model, Deserialize(fs[checkpoint_path].blob))
    /\ model' = [model EXCEPT !.w = Deserialize(fs[checkpoint_path].blob)[1].val]
    /\ optimizer' = [optimizer EXCEPT !.buf = 0]
    /\ UNCHANGED <<loaders, fs, ckRet, ckSavedOpt>>
\* Trainable.load_checkpoint(checkpoint_path):
\* self.model.load_state_dict(torch.load(checkpoint_path))
load_checkpoint(checkpoint_path) ==
    /\ LET entry == fs[checkpoint_path] IN
       IF entry.kind = "dir"
       THEN /\ ckOp' = [op |-> "load_checkpoint", arg |-> checkpoint_path,
                        err |-> "IsADirectoryError"]
            /\ UNCHANGED model
       ELSE IF entry.kind = "absent"
       THEN /\ ckOp' = [op |-> "load_checkpoint", arg |-> checkpoint_path,
                        err |-> "FileNotFoundError"]
            /\ UNCHANGED model
       ELSE IF ~Compatible(model, Deserialize(entry.blob))
       THEN /\ ckOp' = [op |-> "load_checkpoint", arg |-> checkpoint_path,
                        err |-> "RuntimeError"]
            /\ UNCHANGED model
       ELSE /\ ckOp' = [op |-> "load_checkpoint", arg |-> checkpoint_path,
                        err |-> "none"]
            /\ model' = [model EXCEPT !.w = Deserialize(entry.blob)[1].val]
    /\ UNCHANGED <<optimizer, loaders, fs, ckRet, ckSavedOpt>>

CkptNext ==
    \/ \E config \in SetupConfigs : Setup(config)
    \/ TrainableStep
    \/ \E d \in CheckpointDirs : save_checkpoint(d)
    \/ \E p \in AllPaths : load_checkpoint(p)

----------------------------------------------------------------------------
(* main() *)

\* click option values of --restore: not given (None), "" and a directory
RestoreValues ==
    { [given |-> FALSE, path |-> ""],
      [given |-> TRUE,  path |-> ""],
      [given |-> TRUE,  path |-> "prev_state"] }

\* Python truth value of the option: None and "" are false
Truthy(r) == r.given /\ r.path # ""

NoStop == [m \in {} |-> 0]

\* RunConfig(callbacks=..., stop={"training_iteration": 5},
\*           checkpoint_config=CheckpointConfig(checkpoint_at_end=True), name=...)
run_config ==
    [name |-> "ray-tune-slurm-test",
     stop |-> [training_iteration |-> StopIteration],
     checkpoint_at_end |-> TRUE]

\* RunConfig(): what a Tuner built without run_config gets
default_run_config ==
    [name |-> "", stop |-> NoStop, checkpoint_at_end |-> FALSE]

\* Resources of a trial whose trainable is not wrapped by tune.with_resources
DefaultResources == [gpu |-> 0, cpu |-> 1]

NoTuner ==
    [built |-> FALSE, with_resources |-> FALSE, resources |-> DefaultResources,
     scheduler |-> "None", search_alg |-> "None", num_samples |-> 0,
     param_space |-> {}, run_config |-> default_run_config]

BuildTunerNoRunConfig(tune_flag, gpu_flag) ==
    IF tune_flag
    THEN [built |-> TRUE, with_resources |-> TRUE,
          resources |-> [gpu |-> IF gpu_flag THEN 1 ELSE 0, cpu |-> 1],
          scheduler |-> "ASHAScheduler", search_alg |-> "OptunaSearch",
          num_samples |-> NumSamples, param_space |-> {},
          run_config |-> run_config]
    ELSE [built |-> TRUE, with_resources |-> FALSE,
          resources |-> DefaultResources,
          scheduler |-> "None", search_alg |-> "None",
          num_samples |-> DefaultNumSamples, param_space |-> {train_config},
          run_config |-> default_run_config]
\* tune.Tuner(...) of the two branches of main
BuildTuner(tune_flag, gpu_flag) ==
    IF tune_flag
    THEN [built |-> TRUE, with_resources |-> TRUE,
          resources |-> [gpu |-> IF gpu_flag THEN 1 ELSE 0, cpu |-> 1],
          scheduler |-> "ASHAScheduler", search_alg |-> "OptunaSearch",
          num_samples |-> NumSamples, param_space |-> {},
          run_config |-> run_config]
    ELSE [built |-> TRUE, with_resources |-> FALSE,
          resources |-> DefaultResources,
          scheduler |-> "None", search_alg |-> "None",
          num_samples |-> DefaultNumSamples, param_space |-> {train_config},
          run_config |-> run_config]

\* trial.suggest_float(name, low, high): the values the model samples
SuggestFloat(low, high) == {low, (low + high) \div 2, high}

SuggestConfigWide ==
    { [lr |-> l, momentum |-> m, conf_out_channels |-> c] :
        l \in SuggestFloat(-10, 0), m \in SuggestFloat(1, 9), c \in {3, 6, 9} }
\* suggest_config(trial): the configurations an Optuna trial can be given
SuggestConfig ==
    { [lr |-> l, momentum |-> m, conf_out_channels |-> c] :
        l \in SuggestFloat(-10, -1), m \in SuggestFloat(1, 9), c \in {3, 6, 9} }

NoTrial ==
    [status |-> "NONE", iteration |-> 0, checkpointed |-> FALSE,
     source |-> "None", resources |-> DefaultResources,
     config |-> [lr |-> 0, momentum |-> 0, conf_out_channels |-> 0]]

MainInit ==
    /\ do_tune \in BOOLEAN
    /\ gpu \in BOOLEAN
    /\ restore \in RestoreValues
    /\ environ \in SUBSET {"redis_password", "ip_head"}
    /\ pc = "start"
    /\ stages = <<>>
    /\ failed = "none"
    /\ rayInit = [called |-> FALSE, address |-> "unset"]
    /\ restored = [done |-> FALSE, path |-> ""]
    /\ tuner = NoTuner
    /\ tunersBuilt = 0
    /\ fitCalls = 0
    /\ launched = 0
    /\ finished = 0
    /\ trial = NoTrial

Fail(stage) ==
    /\ pc' = "failed"
    /\ failed' = stage

MainBootstrapGet ==
    /\ pc = "start"
    /\ "redis_password" \in environ
    /\ stages' = Append(stages, "bootstrap")
    /\ rayInit' = [called |-> TRUE,
                   address |-> IF "ip_head" \in environ THEN "ip_head" ELSE "missing"]
    /\ \/ pc' = "download" /\ UNCHANGED failed
       \/ Fail("bootstrap")
    /\ UNCHANGED <<do_tune, gpu, restore, environ, restored, tuner, tunersBuilt,
                   fitCalls, launched, finished, trial>>
\* if "redis_password" in os.environ: os.environ["ip_head"] raises KeyError
\* when the variable is missing; otherwise ray.init(address=...) connects or
\* raises, then register_ray()
MainBootstrap ==
    /\ pc = "start"
    /\ "redis_password" \in environ
    /\ stages' = Append(stages, "bootstrap")
    /\ IF "ip_head" \notin environ
       THEN /\ Fail("bootstrap")
            /\ UNCHANGED rayInit
       ELSE /\ rayInit' = [called |-> TRUE, address |-> "ip_head"]
            /\ \/ pc' = "download" /\ UNCHANGED failed
               \/ Fail("bootstrap")
    /\ UNCHANGED <<do_tune, gpu, restore, environ, restored, tuner, tunersBuilt,
                   fitCalls, launched, finished, trial>>

\* not running distributed: no ray.init
MainSkipBootstrap ==
    /\ pc = "start"
    /\ "redis_password" \notin environ
    /\ pc' = "download"
    /\ UNCHANGED <<do_tune, gpu, restore, environ, stages, failed, rayInit,
                   restored, tuner, tunersBuilt, fitCalls, launched, finished,
                   trial>>

\* datasets.MNIST("~/data", train=True, download=True), then run_config and
\* train_config are built and the branch on do_tune is taken
MainDownload ==
    /\ pc = "download"
    /\ stages' = Append(stages, "download")
    /\ \/ /\ pc' = IF do_tune THEN "restore" ELSE "tuner"
          /\ UNCHANGED failed
       \/ Fail("download")
    /\ UNCHANGED <<do_tune, gpu, restore, environ, rayInit, restored, tuner,
                   tunersBuilt, fitCalls, launched, finished, trial>>

\* if restore: optuna_search.restore_from_dir(restore)
MainRestore ==
    /\ pc = "restore"
    /\ Truthy(restore)
    /\ stages' = Append(stages, "restore")
    /\ \/ /\ restored' = [done |-> TRUE, path |-> restore.path]
          /\ pc' = "tuner"
          /\ UNCHANGED failed
       \/ /\ Fail("restore")
          /\ UNCHANGED restored
    /\ UNCHANGED <<do_tune, gpu, restore, environ, rayInit, tuner, tunersBuilt,
                   fitCalls, launched, finished, trial>>

MainSkipRestoreUnguarded ==
    /\ pc = "restore"
    /\ pc' = "tuner"
    /\ UNCHANGED <<do_tune, gpu, restore, environ, stages, failed, rayInit,
                   restored, tuner, tunersBuilt, fitCalls, launched, finished,
                   trial>>
\* restore is None or empty: nothing is restored
MainSkipRestore ==
    /\ pc = "restore"
    /\ ~Truthy(restore)
    /\ pc' = "tuner"
    /\ UNCHANGED <<do_tune, gpu, restore, environ, stages, failed, rayInit,
                   restored, tuner, tunersBuilt, fitCalls, launched, finished,
                   trial>>

\* tuner = tune.Tuner(...)
MainBuildTuner ==
    /\ pc = "tuner"
    /\ tuner' = BuildTuner(do_tune, gpu)
    /\ tunersBuilt' = tunersBuilt + 1
    /\ stages' = Append(stages, "tuner")
    /\ pc' = "fit"
    /\ UNCHANGED <<do_tune, gpu, restore, environ, failed, rayInit, restored,
                   fitCalls, launched, finished, trial>>

\* tuner.fit() is called: the experiment starts, or fit raises
MainFit ==
    /\ pc = "fit"
    /\ stages' = Append(stages, "fit")
    /\ fitCalls' = fitCalls + 1
    /\ \/ pc' = "fitting" /\ UNCHANGED failed
       \/ Fail("fit")
    /\ UNCHANGED <<do_tune, gpu, restore, environ, rayInit, restored, tuner,
                   tunersBuilt, launched, finished, trial>>

\* tuner.fit() returns once every sample has run
MainFitReturn ==
    /\ pc = "fitting"
    /\ trial = NoTrial
    /\ finished = tuner.num_samples
    /\ pc' = "done"
    /\ UNCHANGED <<do_tune, gpu, restore, environ, stages, failed, rayInit,
                   restored, tuner, tunersBuilt, fitCalls, launched, finished,
                   trial>>

----------------------------------------------------------------------------
(* The trials of the experiment, as the tuner of main configures them.      *)
(* Trials are run one at a time.                                           *)

\* the stop criterion of run_config on a result with this training_iteration
StopReached(rc, iteration) ==
    /\ "training_iteration" \in DOMAIN rc.stop
    /\ iteration >= rc.stop["training_iteration"]

\* a trial is created: its configuration comes from the search algorithm
\* when there is one, from param_space otherwise; its resources from
\* tune.with_resources when the trainable is wrapped
TrialStart ==
    /\ pc = "fitting"
    /\ trial = NoTrial
    /\ launched < tuner.num_samples
    /\ \E config \in (IF tuner.search_alg = "OptunaSearch"
                      THEN SuggestConfig ELSE tuner.param_space) :
          trial' = [status |-> "RUNNING", iteration |-> 0,
                    checkpointed |-> FALSE,
                    source |-> IF tuner.search_alg = "OptunaSearch"
                               THEN "suggest_config" ELSE "param_space",
                    resources |-> IF tuner.with_resources
                                  THEN tuner.resources ELSE DefaultResources,
                    config |-> config]
    /\ launched' = launched + 1
    /\ UNCHANGED <<do_tune, gpu, restore, environ, pc, stages, failed, rayInit,
                   restored, tuner, tunersBuilt, fitCalls, finished>>

\* one Trainable.step of the trial; its result carries training_iteration
TrialStep ==
    /\ trial.status = "RUNNING"
    /\ ~StopReached(tuner.run_config, trial.iteration)
    /\ trial.iteration < MaxIter
    /\ trial' = [trial EXCEPT !.iteration = trial.iteration + 1]
    /\ UNCHANGED <<do_tune, gpu, restore, environ, pc, stages, failed, rayInit,
                   restored, tuner, tunersBuilt, fitCalls, launched, finished>>

\* the stop criterion holds on the last result: the trial is stopped, and
\* checkpointed when checkpoint_at_end is set
TrialStop ==
    /\ trial.status = "RUNNING"
    /\ StopReached(tuner.run_config, trial.iteration)
    /\ trial' = [trial EXCEPT !.status = "TERMINATED",
                              !.checkpointed = tuner.run_config.checkpoint_at_end]
    /\ UNCHANGED <<do_tune, gpu, restore, environ, pc, stages, failed, rayInit,
                   restored, tuner, tunersBuilt, fitCalls, launched, finished>>

\* the ASHA scheduler stops a trial early on one of its results
TrialSchedulerStop ==
    /\ trial.status = "RUNNING"
    /\ tuner.scheduler = "ASHAScheduler"
    /\ trial.iteration >= 1
    /\ ~StopReached(tuner.run_config, trial.iteration)
    /\ trial' = [trial EXCEPT !.status = "TERMINATED",
                              !.checkpointed = tuner.run_config.checkpoint_at_end]
    /\ UNCHANGED <<do_tune, gpu, restore, environ, pc, stages, failed, rayInit,
                   restored, tuner, tunersBuilt, fitCalls, launched, finished>>

\* the stopped trial is recorded and its slot freed
TrialReap ==
    /\ trial.status = "TERMINATED"
    /\ trial' = NoTrial
    /\ finished' = finished + 1
    /\ UNCHANGED <<do_tune, gpu, restore, environ, pc, stages, failed, rayInit,
                   restored, tuner, tunersBuilt, fitCalls, launched>>

MainNext ==
    \/ MainBootstrap
    \/ MainSkipBootstrap
    \/ MainDownload
    \/ MainRestore
    \/ MainSkipRestore
    \/ MainBuildTuner
    \/ MainFit
    \/ MainFitReturn
    \/ TrialStart
    \/ TrialStep
    \/ TrialStop
    \/ TrialSchedulerStop
    \/ TrialReap

----------------------------------------------------------------------------
(* Specifications *)

NetIdle ==
    /\ netPc = "idle" /\ netShape = <<>> /\ netBatch = 0 /\ netChannels = 0
    /\ netErr = "none"

TestIdle ==
    /\ tPc = "idle" /\ train_loader = <<>> /\ data_loader = <<>>
    /\ test_size = 0 /\ batch_size = 0 /\ batch_idx = 0 /\ correct = 0
    /\ total = 0 /\ updates = 0 /\ result = NoResult

CkptIdle ==
    /\ model = [conf_out_channels |-> 0, w |-> 0]
    /\ optimizer = [lr |-> 0, momentum |-> 0, buf |-> MaxBuf]
    /\ loaders = [train |-> "", test |-> "", batch_size |-> 0]
    /\ fs = [p \in AllPaths |-> Absent]
    /\ ckRet = NoPath
    /\ ckOp = [op |-> "none", arg |-> NoPath, err |-> "none"]
    /\ ckSavedOpt = [lr |-> 0, momentum |-> 0, buf |-> 0]

MainIdle ==
    /\ do_tune = FALSE /\ gpu = FALSE /\ restore = [given |-> FALSE, path |-> ""]
    /\ environ = {} /\ pc = "idle" /\ stages = <<>> /\ failed = "none"
    /\ rayInit = [called |-> FALSE, address |-> "unset"]
    /\ restored = [done |-> FALSE, path |-> ""]
    /\ tuner = NoTuner /\ tunersBuilt = 0 /\ fitCalls = 0 /\ launched = 0
    /\ finished = 0 /\ trial = NoTrial

\* main() and its trials
Init == MainInit /\ NetIdle /\ TestIdle /\ CkptIdle
Next == MainNext /\ UNCHANGED <<netVars, testVars, ckptVars>>
Spec == Init /\ [][Next]_vars
\* the orchestrator keeps running a trial that can step and stops one whose
\* stop criterion holds
SpecFair == Spec /\ WF_mainVars(TrialStep) /\ WF_mainVars(TrialStop)

\* ConvNet.forward on one batch
NetNext ==
    \/ NetConv
    \/ NetPool
    \/ NetView
    \/ NetFc
    \/ NetLogSoftmax
InitNet == NetInit /\ TestIdle /\ CkptIdle /\ MainIdle
NextNet == NetNext /\ UNCHANGED <<testVars, ckptVars, mainVars>>
SpecNet == InitNet /\ [][NextNet]_vars

\* one Trainable.step: train() then test()
InitTest == TestInit /\ NetIdle /\ CkptIdle /\ MainIdle
NextTest == TestNext /\ UNCHANGED <<netVars, ckptVars, mainVars>>
SpecTest == InitTest /\ [][NextTest]_vars

\* a Trainable driven through setup, step, save_checkpoint, load_checkpoint
InitCkpt == CkptInit /\ NetIdle /\ TestIdle /\ MainIdle
NextCkpt == CkptNext /\ UNCHANGED <<netVars, testVars, mainVars>>
SpecCkpt == InitCkpt /\ [][NextCkpt]_vars

----------------------------------------------------------------------------
(* Claims *)

InTest == tPc \in {"test", "return", "done", "raised"}

\* C1 (as claimed): after save_checkpoint(checkpoint_dir), load_checkpoint
\* called with the value save_checkpoint returned, on a Trainable with the
\* same conf_out_channels, completes without error and leaves the model
\* parameters equal to those in checkpoint.pth of that directory.
C1_RoundTrip ==
    LET file == fs[PathJoin(ckRet, CheckpointName)] IN
    ( /\ ckRet # NoPath
      /\ ckOp.op = "load_checkpoint"
      /\ ckOp.arg = ckRet
      /\ file.kind = "file"
      /\ Compatible(model, Deserialize(file.blob)) )
    => ( /\ ckOp.err = "none"
         /\ StateDict(model) = Deserialize(file.blob) )

\* C2 (as claimed): for every data loader and every test_size, in test()
\* 0 <= correct <= total, total > 0 at the return, step does not raise and
\* its mean_accuracy is in [0,1].
C2_StepNeverRaises ==
    /\ InTest => (0 <= correct /\ correct <= total)
    /\ tPc = "return" => total > 0
    /\ tPc # "raised"
    /\ tPc = "done" => ( /\ result.raised = "none"
                         /\ result.den > 0
                         /\ 0 <= result.num /\ result.num <= result.den )

\* C2 (amended): the same for every data loader that yields at least one
\* batch and every test_size >= 0; in every case 0 <= correct <= total.
C2_StepAccuracy ==
    /\ InTest => (0 <= correct /\ correct <= total)
    /\ (Len(data_loader) > 0 /\ test_size >= 0) =>
          /\ tPc = "return" => total > 0
          /\ tPc # "raised"
    /\ tPc = "done" => ( /\ result.raised = "none"
                         /\ result.den > 0
                         /\ 0 <= result.num /\ result.num <= result.den )

C2_Witness ==
    /\ tPc = "done"
    /\ updates > 0
    /\ Len(data_loader) > 1
    /\ result.num > 0 /\ result.num < result.den

\* C3 (as claimed): the number of samples test() counts into total is at
\* most test_size.
C3_AtMostTestSize == InTest => total <= test_size

\* C3 (amended): for test_size >= 0 the number of samples test() counts into
\* total is at most test_size + 2 * batch_size - 1, however many batches
\* the loader holds (full batches up to index test_size / batch_size, then
\* possibly the shorter last batch); for test_size < 0 nothing is counted.
C3_BoundedSample ==
    InTest => /\ test_size >= 0 => total <= test_size + 2 * batch_size - 1
              /\ test_size < 0 => total = 0

C3_Witness ==
    /\ tPc = "done"
    /\ test_size > 0
    /\ total = test_size + batch_size
    /\ batch_idx < Len(data_loader)

\* C4: in both modes the tuner carries the stop criterion training_iteration
\* 5, no trial executes step more than 5 times, every running trial
\* eventually stops, and the trial of single-configuration mode stops after
\* exactly 5 steps and is checkpointed at its end.
C4_FixedIterationStop ==
    /\ [](tuner.built => /\ DOMAIN tuner.run_config.stop = {"training_iteration"}
                         /\ tuner.run_config.stop["training_iteration"] = 5)
    /\ [](trial.iteration <= 5)
    /\ []((~do_tune /\ trial.status = "TERMINATED")
             => (trial.iteration = 5 /\ trial.checkpointed))
    /\ (trial.status = "RUNNING") ~> (trial.status = "TERMINATED")

C4_Witness ==
    /\ ~do_tune
    /\ trial.status = "TERMINATED"
    /\ trial.iteration = 5
    /\ trial.checkpointed

\* C5 (as claimed): for every combination of --tune and --restore, each
\* trial requests 1 GPU when --gpu is given and 0 GPUs when it is not, and
\* 1 CPU.
C5_GpuFlagRequestsGpu ==
    trial.status # "NONE" =>
        trial.resources = [gpu |-> IF gpu THEN 1 ELSE 0, cpu |-> 1]

\* C6: main builds at most one tuner and calls fit at most once, exactly one
\* of each when it succeeds; without --tune the experiment is one trial with
\* lr=1e-10, momentum=0.5, conf_out_channels=9 and no search algorithm or
\* scheduler; with --tune it is 30 samples whose configurations come from
\* suggest_config, within lr in [1e-10, 1e-1], momentum in [0.1, 0.9],
\* conf_out_channels in {3, 6, 9}.
C6_ModeSelection ==
    /\ tunersBuilt <= 1 /\ fitCalls <= 1
    /\ pc \in {"fitting", "done"} => (tunersBuilt = 1 /\ fitCalls = 1)
    /\ launched <= tuner.num_samples
    /\ pc = "done" => finished = tuner.num_samples
    /\ (tuner.built /\ ~do_tune) =>
          /\ tuner.num_samples = 1
          /\ tuner.search_alg = "None" /\ tuner.scheduler = "None"
          /\ tuner.param_space =
                {[lr |-> -10, momentum |-> 5, conf_out_channels |-> 9]}
    /\ (tuner.built /\ do_tune) =>
          /\ tuner.num_samples = 30
          /\ tuner.search_alg = "OptunaSearch"
          /\ tuner.param_space = {}
    /\ (trial.status # "NONE" /\ ~do_tune) =>
          /\ trial.source = "param_space"
          /\ trial.config = [lr |-> -10, momentum |-> 5, conf_out_channels |-> 9]
    /\ (trial.status # "NONE" /\ do_tune) =>
          /\ trial.source = "suggest_config"
          /\ -10 <= trial.config.lr /\ trial.config.lr <= -1
          /\ 1 <= trial.config.momentum /\ trial.config.momentum <= 9
          /\ trial.config.conf_out_channels \in {3, 6, 9}

C6_Witness ==
    /\ do_tune
    /\ pc = "done"
    /\ finished = 30

Precedes(a, b) ==
    \E i, j \in 1..Len(stages) : i < j /\ stages[i] = a /\ stages[j] = b

Attempted(stage) == \E i \in 1..Len(stages) : stages[i] = stage

StageRank(stage) ==
    CASE stage = "bootstrap" -> 1
      [] stage = "download" -> 2
      [] stage = "restore" -> 3
      [] stage = "tuner" -> 4
      [] stage = "fit" -> 5

\* C8: the stages of main run in the order bootstrap (only when
\* redis_password is in the environment), download, optional restore, tuner
\* fit; each is attempted at most once; a stage that fails is the last one
\* attempted and main ends there; ray.init is never called with a missing
\* head-node address.
C8_FailuresPropagate ==
    /\ \A i, j \in 1..Len(stages) :
          i < j => StageRank(stages[i]) < StageRank(stages[j])
    /\ Attempted("bootstrap") => "redis_password" \in environ
    /\ (pc # "start" /\ "redis_password" \in environ) => Attempted("bootstrap")
    /\ (Attempted("restore") \/ Attempted("tuner")) => Attempted("download")
    /\ Attempted("fit") => Attempted("tuner")
    /\ failed # "none" =>
          /\ pc = "failed"
          /\ stages # <<>> /\ stages[Len(stages)] = failed
          /\ trial = NoTrial /\ launched = 0
    /\ pc = "failed" => failed # "none"
    /\ rayInit.called => (rayInit.address = "ip_head" /\ "ip_head" \in environ)
    /\ ("redis_password" \in environ /\ "ip_head" \notin environ) =>
          (~rayInit.called /\ pc \in {"start", "failed"})

C8_Witness ==
    /\ "redis_password" \in environ
    /\ "ip_head" \notin environ
    /\ failed = "bootstrap"
    /\ stages = <<"bootstrap">>
    /\ ~rayInit.called

\* C9: for conf_out_channels in {3, 6, 9} and a batch of N 28x28 images, the
\* convolution followed by the pooling leaves 64 * conf_out_channels values
\* per image, the view yields exactly N rows and the output is N rows of 10
\* class scores; forward does not raise.
C9_ShapeConsistency ==
    /\ netPc = "pooled" =>
          /\ netShape[1] = netBatch
          /\ netShape[2] * netShape[3] * netShape[4] = 64 * netChannels
    /\ netPc = "viewed" => netShape = <<netBatch, 64 * netChannels>>
    /\ netPc \in {"fc", "output"} => netShape = <<netBatch, 10>>
    /\ netPc # "raised"

C9_Witness ==
    /\ netPc = "output"
    /\ netChannels = 9
    /\ netBatch > 1
    /\ netShape = <<netBatch, 10>>

\* C10: save_checkpoint changes neither the model parameters nor the
\* optimizer state; load_checkpoint changes at most the model parameters,
\* and leaves the optimizer state, the data loaders and the architecture
\* unchanged.
C10_CheckpointFrame ==
    [][ /\ (\E d \in CheckpointDirs : save_checkpoint(d)) =>
              (model' = model /\ optimizer' = optimizer /\ loaders' = loaders)
        /\ (\E p \in AllPaths : load_checkpoint(p)) =>
              /\ optimizer' = optimizer
              /\ loaders' = loaders
              /\ model'.conf_out_channels = model.conf_out_channels ]_vars

\* a successful load that replaced the parameters while the optimizer is not
\* the one of the time of the save
C10_Witness ==
    /\ ckOp.op = "load_checkpoint"
    /\ ckOp.err = "none"
    /\ StateDict(model) = Deserialize(fs[ckOp.arg].blob)
    /\ optimizer.buf > 0
    /\ optimizer # ckSavedOpt

====
